---- MODULE Spec2Model ----
(***************************************************************************)
(* State-machine model of two BusTub components:                           *)
(*   - LRUKReplacer   (src/src/buffer/lru_k_replacer.cpp)                  *)
(*   - Trie           (src/unnamed/part_000, i.e. src/primer/trie.cpp)     *)
(* The replacer is checked under Spec, the trie under TrieSpec.  Each      *)
(* specification leaves the other component's variables untouched.         *)
(***************************************************************************)
EXTENDS Integers, Sequences, FiniteSets, TLC

(***************************************************************************)
(* Bounds of the replacer model.                                           *)
(***************************************************************************)
\* num_frames handed to the constructor: frame ids are 0 .. NumFrames-1
NumFrames == 3
\* the constructor's k ranges over 1 .. MaxK
MaxK == 3
\* RecordAccess is not called once the clock has reached MaxAccessTime
MaxAccessTime == 3
\* Evict is not called when its clock reads would pass MaxTime: room for one
\* full scan after the last access
MaxTime == MaxAccessTime + NumFrames

\* std::numeric_limits<unsigned long>::max(); any value above MaxTime + NumFrames
\* behaves the same, the scan only compares timestamps against it
ULONG_MAX == 2147483647

\* std::nullopt, and the -1 that Evict uses for "no candidate yet"
NullOpt == -1

FrameIds == 0 .. (NumFrames - 1)

VARIABLES
    node_store_,        \* LRUKReplacer::node_store_ : frame id -> LRUKNode
    k_,                 \* LRUKReplacer::k_
    current_timestamp_, \* the last value the clock returned
    last_op,            \* name of the last replacer call
    last_arg,           \* its arguments
    last_ret,           \* the frame id it returned (NullOpt for std::nullopt and for void)
    last_thrown,        \* whether it threw bustub::Exception
    pre_store,          \* node_store_ as it was when the last call started
    heap,               \* trie nodes by address
    tries,              \* the live Trie snapshots (root addresses, 0 = null root)
    trie_op,            \* record of the last trie call
    threads,            \* the threads running Put concurrently: locals and position
    start_heap,         \* the heap when the concurrent threads started
    last_get            \* what the last concurrent Get returned, and what the same
                        \* Get returned before the threads started

replacer_vars == <<node_store_, k_, current_timestamp_, last_op, last_arg, last_ret,
                   last_thrown, pre_store>>
conc_vars == <<threads, start_heap, last_get>>
trie_vars == <<heap, tries, trie_op, threads, start_heap, last_get>>
vars == <<node_store_, k_, current_timestamp_, last_op, last_arg, last_ret, last_thrown, pre_store,
          heap, tries, trie_op, threads, start_heap, last_get>>

(***************************************************************************)
(* LRUKReplacer                                                            *)
(***************************************************************************)

\* The clock.  Every call returns a value strictly above every value returned
\* before (monotonically increasing, collision free).
NowNanos(clock) == clock + 1

\* LRUKNode(k, fid): a fresh record, not evictable, holding the time of the
\* access that created it.
LRUKNode(now) == [history_ |-> <<now>>, is_evictable_ |-> FALSE]

RECURSIVE IterationOrders(_)
\* std::unordered_map iteration order is unspecified: any order of the keys.
IterationOrders(S) ==
    IF S = {} THEN { << >> }
    ELSE UNION { { <<f>> \o o : o \in IterationOrders(S \ {f}) } : f \in S }

\* LRUKReplacer::Size()
Size(store) == Cardinality({ f \in DOMAIN store : store[f].is_evictable_ })

\* node.history_.back()
Back(h) == h[Len(h)]

\* *std::prev(node.history_.end(), k)
PrevEnd(h, k) == h[Len(h) - k + 1]

\* OlderThan without the test of the evictable flag.
OlderThanAnyFrame(last_time_entry, oldest_time, node) ==
    last_time_entry < oldest_time

\* The test that makes a frame with fewer than k accesses the new candidate.
OlderThan(last_time_entry, oldest_time, node) ==
    last_time_entry < oldest_time /\ node.is_evictable_

\* The test that makes a frame with k or more accesses the new candidate.
BiggerThan(distance, biggest_k, node) ==
    distance > biggest_k /\ node.is_evictable_

\* The timestamp Evict reads from a frame with fewer than k accesses.
InfEntry(h) == Back(h)

\* One iteration of the loop of Evict over the entry (frame_id, node).
EvictVisit(acc, frame_id, node, k) ==
    IF Len(node.history_) < k
    THEN LET last_time_entry == InfEntry(node.history_) IN
         IF OlderThan(last_time_entry, acc.oldest_time, node)
         THEN [acc EXCEPT !.oldest_time = last_time_entry, !.oldest_time_id = frame_id]
         ELSE acc
    ELSE LET time_entry_at_k == PrevEnd(node.history_, k)
             time_entry_at_latest == NowNanos(acc.clock)
         IN  IF BiggerThan(time_entry_at_latest - time_entry_at_k, acc.biggest_k, node)
             THEN [acc EXCEPT !.biggest_k = time_entry_at_latest - time_entry_at_k,
                              !.biggest_k_id = frame_id,
                              !.clock = time_entry_at_latest]
             ELSE [acc EXCEPT !.clock = time_entry_at_latest]

RECURSIVE EvictScan(_, _, _, _, _)
\* The whole loop of Evict, visiting the entries in the given order.
EvictScan(order, i, store, k, acc) ==
    IF i > Len(order) THEN acc
    ELSE EvictScan(order, i + 1, store, k, EvictVisit(acc, order[i], store[order[i]], k))

\* EvictChoice with the two candidates tried in the other order.
EvictChoiceFiniteFirst(acc) ==
    IF acc.biggest_k_id # -1 THEN acc.biggest_k_id
    ELSE IF acc.oldest_time_id # -1 THEN acc.oldest_time_id
    ELSE NullOpt

\* EvictChoice without its second branch.
EvictChoiceInfOnly(acc) ==
    IF acc.oldest_time_id # -1 THEN acc.oldest_time_id
    ELSE NullOpt

\* The frame Evict picks after the loop (NullOpt when there is no candidate).
EvictChoice(acc) ==
    IF acc.oldest_time_id # -1 THEN acc.oldest_time_id
    ELSE IF acc.biggest_k_id # -1 THEN acc.biggest_k_id
    ELSE NullOpt

\* An erase that also drops every other evictable record.
EraseEvictable(store, frame_id) ==
    [f \in { g \in DOMAIN store : g # frame_id /\ ~store[g].is_evictable_ } |-> store[f]]

\* node_store_.erase(frame_id)
Erase(store, frame_id) == [f \in (DOMAIN store) \ {frame_id} |-> store[f]]

\* A Remove that erases the record whatever its flag and never throws.
RemoveOutcomeForced(store, frame_id) ==
    IF frame_id \in DOMAIN store
    THEN [store |-> Erase(store, frame_id), thrown |-> FALSE]
    ELSE [store |-> store, thrown |-> FALSE]

\* The body of Remove: the store it leaves and whether it throws.
RemoveOutcome(store, frame_id) ==
    IF frame_id \in DOMAIN store
    THEN IF store[frame_id].is_evictable_
         THEN [store |-> Erase(store, frame_id), thrown |-> FALSE]
         ELSE [store |-> store, thrown |-> TRUE]
    ELSE [store |-> store, thrown |-> FALSE]

\* A SetEvictable that makes a record for a frame it does not find.
SetEvictableOutcomeCreating(store, frame_id, set_evictable) ==
    [f \in (DOMAIN store) \cup {frame_id} |->
        IF f = frame_id
        THEN [history_ |-> IF f \in DOMAIN store THEN store[f].history_ ELSE << >>,
              is_evictable_ |-> set_evictable]
        ELSE store[f]]

\* The body of SetEvictable: the store it leaves.
SetEvictableOutcome(store, frame_id, set_evictable) ==
    IF frame_id \in DOMAIN store
    THEN [store EXCEPT ![frame_id].is_evictable_ = set_evictable]
    ELSE store

\* A RecordAccess that restarts the history of a tracked frame.
RecordAccessOutcomeRestarting(store, frame_id, now) ==
    [f \in (DOMAIN store) \cup {frame_id} |->
        IF f = frame_id THEN LRUKNode(now) ELSE store[f]]

\* The body of RecordAccess: the store it leaves when the clock reads now.
RecordAccessOutcome(store, frame_id, now) ==
    IF frame_id \in DOMAIN store
    THEN [store EXCEPT ![frame_id].history_ = Append(@, now)]
    ELSE [f \in (DOMAIN store) \cup {frame_id} |->
            IF f = frame_id THEN LRUKNode(now) ELSE store[f]]

\* Arguments of a call, for the record of the last call.
Args(frame_id, set_evictable) == [frame_id |-> frame_id, set_evictable |-> set_evictable]

\* Number of clock reads Evict makes on the store.
ClockReads(store, k) == Cardinality({ f \in DOMAIN store : Len(store[f].history_) >= k })

ReplacerInit ==
    /\ node_store_ = << >>
    /\ k_ \in 1 .. MaxK
    /\ current_timestamp_ = 0
    /\ last_op = "new"
    /\ last_arg = Args(NullOpt, FALSE)
    /\ last_ret = NullOpt
    /\ last_thrown = FALSE
    /\ pre_store = << >>

\* LRUKReplacer::RecordAccess(frame_id)
RecordAccess(frame_id) ==
    /\ current_timestamp_ < MaxAccessTime
    /\ LET now == NowNanos(current_timestamp_) IN
       /\ node_store_' = RecordAccessOutcome(node_store_, frame_id, now)
       /\ current_timestamp_' = now
    /\ last_op' = "RecordAccess"
    /\ last_arg' = Args(frame_id, FALSE)
    /\ last_ret' = NullOpt
    /\ last_thrown' = FALSE
    /\ pre_store' = node_store_
    /\ UNCHANGED k_

\* LRUKReplacer::SetEvictable(frame_id, set_evictable)
SetEvictable(frame_id, set_evictable) ==
    /\ node_store_' = SetEvictableOutcome(node_store_, frame_id, set_evictable)
    /\ last_op' = "SetEvictable"
    /\ last_arg' = Args(frame_id, set_evictable)
    /\ last_ret' = NullOpt
    /\ last_thrown' = FALSE
    /\ pre_store' = node_store_
    /\ UNCHANGED <<k_, current_timestamp_>>

\* LRUKReplacer::Remove(frame_id)
Remove(frame_id) ==
    /\ LET out == RemoveOutcome(node_store_, frame_id) IN
         /\ node_store_' = out.store
         /\ last_thrown' = out.thrown
    /\ last_op' = "Remove"
    /\ last_arg' = Args(frame_id, FALSE)
    /\ last_ret' = NullOpt
    /\ pre_store' = node_store_
    /\ UNCHANGED <<k_, current_timestamp_>>

\* LRUKReplacer::Evict()
Evict ==
    /\ current_timestamp_ + ClockReads(node_store_, k_) <= MaxTime
    /\ \E order \in IterationOrders(DOMAIN node_store_) :
         LET start == [oldest_time |-> ULONG_MAX, biggest_k |-> 0,
                       oldest_time_id |-> -1, biggest_k_id |-> -1,
                       clock |-> current_timestamp_]
             acc == EvictScan(order, 1, node_store_, k_, start)
             victim == EvictChoice(acc)
             out == IF victim # NullOpt THEN RemoveOutcome(node_store_, victim)
                    ELSE [store |-> node_store_, thrown |-> FALSE]
         IN  /\ node_store_' = out.store
             /\ current_timestamp_' = acc.clock
             /\ last_ret' = IF out.thrown THEN NullOpt ELSE victim
             /\ last_thrown' = out.thrown
    /\ last_op' = "Evict"
    /\ last_arg' = Args(NullOpt, FALSE)
    /\ pre_store' = node_store_
    /\ UNCHANGED k_

(***************************************************************************)
(* Trie                                                                    *)
(***************************************************************************)

\* Bounds of the trie model.
\* keys are the sequences over Chars of length 0 .. MaxKeyLen
MaxKeyLen == 2
\* Put is not called when the nodes it allocates would not fit in MaxNodes
MaxNodes == 7

Chars == {"a", "b"}

\* The value types Put and Get are instantiated for.
Types == {"uint32_t", "uint64_t"}

\* The values handed to Put: two, so that an overwrite can be told apart.
Values == {1, 2}

Keys == UNION { [1 .. n -> Chars] : n \in 0 .. MaxKeyLen }

\* nullptr
Null == 0

\* TrieNode(children): a node without a value.
TrieNode(children) ==
    [children_ |-> children, is_value_node_ |-> FALSE, type |-> "none", value_ |-> 0]

\* TrieNodeWithValue<T>(children, value)
TrieNodeWithValue(children, T, value) ==
    [children_ |-> children, is_value_node_ |-> TRUE, type |-> T, value_ |-> value]

\* What Get returns: nullptr, or a pointer to the value.
NotFound == [found |-> FALSE, value |-> 0]
Found(value) == [found |-> TRUE, value |-> value]

\* children_.find(ch): the child's address, Null for children_.end().
Find(h, node, ch) ==
    IF ch \in DOMAIN h[node].children_ THEN h[node].children_[ch] ELSE Null

RECURSIVE GetWalk(_, _, _, _)
\* The loop of Get from position i of the key: the node reached, or the
\* string "nullptr" when the loop returns nullptr itself.
GetWalk(h, currentNode, key, i) ==
    IF i > Len(key) THEN [returned |-> FALSE, node |-> currentNode]
    ELSE IF currentNode = Null THEN [returned |-> TRUE, node |-> Null]
    ELSE LET findnode == Find(h, currentNode, key[i]) IN
         IF findnode = Null THEN [returned |-> TRUE, node |-> Null]
         ELSE GetWalk(h, findnode, key, i + 1)

\* A cast that does not look at the type of the stored value.
DynamicCastAnyType(h, node, T) ==
    node # Null /\ h[node].is_value_node_

\* dynamic_cast<const TrieNodeWithValue<T> *>(node): does the cast succeed.
DynamicCast(h, node, T) ==
    node # Null /\ h[node].is_value_node_ /\ h[node].type = T

\* Trie::Get<T>(key) on the trie rooted at root_
Get(h, root_, key, T) ==
    LET w == GetWalk(h, root_, key, 1) IN
    IF w.returned THEN NotFound
    ELSE IF ~DynamicCast(h, w.node, T) THEN NotFound
    ELSE Found(h[w.node].value_)

RECURSIVE PutWalk(_, _, _, _, _)
\* The first loop of Put: parents[i] is the node seen before key[i] is
\* consumed (Null once the walk fell off), currentNode the node reached.
PutWalk(h, currentNode, key, i, parents) ==
    IF i > Len(key) THEN [parents |-> parents, currentNode |-> currentNode]
    ELSE IF currentNode = Null
         THEN PutWalk(h, Null, key, i + 1, Append(parents, Null))
         ELSE PutWalk(h, Find(h, currentNode, key[i]), key, i + 1,
                      Append(parents, currentNode))

\* A "copy" that is the parent node itself, edited in place.
NewAddressInPlace(h, node) == node

\* Address a copy made by this call is written to: a fresh one.
NewAddress(h, node) == Len(h) + 1

\* Write a node at an address (the next free one extends the heap).
Store(h, addr, node) ==
    IF addr = Len(h) + 1 THEN Append(h, node) ELSE [h EXCEPT ![addr] = node]

\* A child assignment that keeps a child already present (map::insert).
SetChildIfAbsent(children, ch, child) ==
    [c \in (DOMAIN children) \cup {ch} |->
        IF c \in DOMAIN children THEN children[c] ELSE child]

\* children_[key] = child
SetChild(children, ch, child) ==
    [c \in (DOMAIN children) \cup {ch} |-> IF c = ch THEN child ELSE children[c]]

\* A new value node that never takes over the old node's children.
TerminalChildrenNone(h, currentNode) == << >>

\* The children the new value node of Put starts with.
TerminalChildren(h, currentNode) ==
    IF currentNode = Null THEN << >> ELSE h[currentNode].children_

RECURSIVE PutRebuild(_, _, _, _, _)
\* The second loop of Put: pops parents[i], clones it (or makes an empty
\* TrieNode), points its child key[i] at currentNode, and goes on upward.
PutRebuild(h, parents, key, i, currentNode) ==
    IF i = 0 THEN [heap |-> h, currentNode |-> currentNode]
    ELSE LET node == parents[i]
             addr == IF node # Null THEN NewAddress(h, node) ELSE Len(h) + 1
             base == IF node # Null THEN h[node] ELSE TrieNode(<< >>)
             cloned_node == [base EXCEPT !.children_ = SetChild(@, key[i], currentNode)]
         IN  PutRebuild(Store(h, addr, cloned_node), parents, key, i - 1, addr)

\* Trie::Put<T>(key, value) on the trie rooted at root_: the heap after the
\* call and the root of the trie it returns.
PutResult(h, root_, key, T, value) ==
    LET w == PutWalk(h, root_, key, 1, << >>)
        terminal == TrieNodeWithValue(TerminalChildren(h, w.currentNode), T, value)
        h1 == Append(h, terminal)
        r == PutRebuild(h1, w.parents, key, Len(key), Len(h1))
        \* return Trie{currentNode->Clone()}
        h2 == Append(r.heap, r.heap[r.currentNode])
    IN  [heap |-> h2, root_ |-> Len(h2)]

\* The record of a trie call.
TrieCall(op, src, key, T, value, result, thrown, pre_heap) ==
    [op |-> op, src |-> src, key |-> key, type |-> T, value |-> value,
     result |-> result, thrown |-> thrown, pre_heap |-> pre_heap]

TrieInit ==
    /\ heap = << >>
    /\ tries = <<Null>>
    /\ trie_op = TrieCall("new", Null, << >>, "none", 0, Null, FALSE, << >>)
    /\ threads = << >>
    /\ start_heap = << >>
    /\ last_get = [result |-> NotFound, before |-> NotFound]

\* t.Put<T>(key, value) for a live snapshot t; the result becomes a live snapshot.
Put(t, key, T, value) ==
    /\ Len(heap) + Len(key) + 2 <= MaxNodes
    /\ LET r == PutResult(heap, tries[t], key, T, value) IN
         /\ heap' = r.heap
         /\ tries' = Append(tries, r.root_)
         /\ trie_op' = TrieCall("Put", tries[t], key, T, value, r.root_, FALSE, heap)

\* t.Remove(key) for the newest snapshot t: throws NotImplementedException.
TrieRemove(key) ==
    /\ trie_op' = TrieCall("Remove", tries[Len(tries)], key, "none", 0, Null, TRUE, heap)
    /\ UNCHANGED <<heap, tries>>

Init == ReplacerInit /\ TrieInit

Next ==
    \/ \E frame_id \in FrameIds : RecordAccess(frame_id) /\ UNCHANGED trie_vars
    \/ \E frame_id \in FrameIds, set_evictable \in BOOLEAN :
          SetEvictable(frame_id, set_evictable) /\ UNCHANGED trie_vars
    \/ \E frame_id \in FrameIds : Remove(frame_id) /\ UNCHANGED trie_vars
    \/ Evict /\ UNCHANGED trie_vars

Spec == Init /\ [][Next]_vars

\* The frame ids a caller can hand in (frame_id_t is a signed integer): the
\* valid ones, one below and one above.
AnyFrameIds == (-1) .. NumFrames

\* The replacer driven by a caller that does not keep to [0, num_frames).
AnyIdNext ==
    \/ \E frame_id \in AnyFrameIds : RecordAccess(frame_id) /\ UNCHANGED trie_vars
    \/ \E frame_id \in AnyFrameIds, set_evictable \in BOOLEAN :
          SetEvictable(frame_id, set_evictable) /\ UNCHANGED trie_vars
    \/ \E frame_id \in AnyFrameIds : Remove(frame_id) /\ UNCHANGED trie_vars
    \/ Evict /\ UNCHANGED trie_vars

AnyIdSpec == Init /\ [][AnyIdNext]_vars

TrieNext ==
    \/ \E t \in 1 .. Len(tries), key \in Keys, T \in Types, value \in Values :
          Put(t, key, T, value) /\ UNCHANGED replacer_vars /\ UNCHANGED conc_vars
    \/ \E key \in Keys : TrieRemove(key) /\ UNCHANGED replacer_vars /\ UNCHANGED conc_vars

\* The replacer takes no step under TrieSpec: one k is enough.
TrieSpecInit == Init /\ k_ = 1

TrieSpec == TrieSpecInit /\ [][TrieNext]_vars

(***************************************************************************)
(* Two threads that run Put on the same snapshot, step by step, while Get  *)
(* runs on that snapshot.                                                  *)
(***************************************************************************)

\* the keys of the concurrent calls have length 0 .. MaxConcKeyLen
MaxConcKeyLen == 1

ConcKeys == UNION { [1 .. n -> Chars] : n \in 0 .. MaxConcKeyLen }

Threads == {1, 2}

\* What each thread puts: its own value, and a type of its own.
ThreadType(th) == IF th = 1 THEN "uint32_t" ELSE "uint64_t"
ThreadValue(th) == th

\* The snapshot the threads share: tries[1].
SharedRoot == tries[1]

\* A thread that has entered Put(key, value): currentNode = this->root_,
\* parents empty, about to run the first loop.
ThreadAtEntry(th, key, root_) ==
    [pc |-> "walk", key |-> key, type |-> ThreadType(th), value |-> ThreadValue(th),
     i |-> 1, currentNode |-> root_, parents |-> << >>, result |-> Null]

\* The shared snapshot is empty, or holds one key put by an earlier call.
ConcInit ==
    /\ ReplacerInit
    /\ k_ = 1
    /\ \/ /\ heap = << >>
          /\ tries = <<Null>>
          /\ trie_op = TrieCall("new", Null, << >>, "none", 0, Null, FALSE, << >>)
       \/ \E key \in ConcKeys :
            LET r == PutResult(<< >>, Null, key, "uint32_t", 2) IN
            /\ heap = r.heap
            /\ tries = <<r.root_>>
            /\ trie_op = TrieCall("Put", Null, key, "uint32_t", 2, r.root_, FALSE, << >>)
    /\ start_heap = heap
    /\ last_get = [result |-> NotFound, before |-> NotFound]
    /\ \E key1 \in ConcKeys, key2 \in ConcKeys :
          threads = [th \in Threads |->
                       ThreadAtEntry(th, IF th = 1 THEN key1 ELSE key2, SharedRoot)]

\* One iteration of the first loop of Put (lines 63-74).
PutWalkStep(th) ==
    LET me == threads[th] IN
    /\ me.pc = "walk"
    /\ me.i <= Len(me.key)
    /\ threads' = [threads EXCEPT ![th] =
                     [me EXCEPT !.parents = Append(@, me.currentNode),
                                !.currentNode = IF me.currentNode = Null THEN Null
                                                ELSE Find(heap, me.currentNode, me.key[me.i]),
                                !.i = me.i + 1]]
    /\ UNCHANGED <<heap, tries, trie_op, start_heap, last_get>>

\* The new value node of Put (lines 75-79).
PutTerminalStep(th) ==
    LET me == threads[th] IN
    /\ me.pc = "walk"
    /\ me.i > Len(me.key)
    /\ heap' = Append(heap, TrieNodeWithValue(TerminalChildren(heap, me.currentNode),
                                              me.type, me.value))
    /\ threads' = [threads EXCEPT ![th] =
                     [me EXCEPT !.pc = "rebuild", !.currentNode = Len(heap) + 1,
                                !.i = Len(me.key)]]
    /\ UNCHANGED <<tries, trie_op, start_heap, last_get>>

\* One iteration of the second loop of Put (lines 80-90).
PutRebuildStep(th) ==
    LET me == threads[th] IN
    /\ me.pc = "rebuild"
    /\ me.i >= 1
    /\ LET node == me.parents[me.i]
           addr == IF node # Null THEN NewAddress(heap, node) ELSE Len(heap) + 1
           base == IF node # Null THEN heap[node] ELSE TrieNode(<< >>)
           cloned_node == [base EXCEPT !.children_ = SetChild(@, me.key[me.i], me.currentNode)]
       IN  /\ heap' = Store(heap, addr, cloned_node)
           /\ threads' = [threads EXCEPT ![th] =
                            [me EXCEPT !.currentNode = addr, !.i = me.i - 1]]
    /\ UNCHANGED <<tries, trie_op, start_heap, last_get>>

\* return Trie{currentNode->Clone()} (line 92)
PutReturnStep(th) ==
    LET me == threads[th] IN
    /\ me.pc = "rebuild"
    /\ me.i = 0
    /\ heap' = Append(heap, heap[me.currentNode])
    /\ threads' = [threads EXCEPT ![th] =
                     [me EXCEPT !.pc = "done", !.result = Len(heap) + 1]]
    /\ UNCHANGED <<tries, trie_op, start_heap, last_get>>

\* A Get<T>(key) on the shared snapshot, run between two steps of the Puts.
ConcGet(key, T) ==
    /\ last_get' = [result |-> Get(heap, SharedRoot, key, T),
                    before |-> Get(start_heap, SharedRoot, key, T)]
    /\ UNCHANGED <<heap, tries, trie_op, threads, start_heap>>

ConcNext ==
    \/ \E th \in Threads : PutWalkStep(th) /\ UNCHANGED replacer_vars
    \/ \E th \in Threads : PutTerminalStep(th) /\ UNCHANGED replacer_vars
    \/ \E th \in Threads : PutRebuildStep(th) /\ UNCHANGED replacer_vars
    \/ \E th \in Threads : PutReturnStep(th) /\ UNCHANGED replacer_vars
    \/ \E key \in ConcKeys, T \in Types : ConcGet(key, T) /\ UNCHANGED replacer_vars

ConcSpec == ConcInit /\ [][ConcNext]_vars

(***************************************************************************)
(* Properties of the replacer, checked under Spec.                         *)
(***************************************************************************)

\* The frames of a store that are flagged evictable.
EvictableFrames(store) == { f \in DOMAIN store : store[f].is_evictable_ }

\* The evictable frames with fewer than k recorded accesses (+inf distance).
InfFrames(store, k) == { f \in EvictableFrames(store) : Len(store[f].history_) < k }

\* The evictable frames with k or more recorded accesses (finite distance).
FiniteFrames(store, k) == { f \in EvictableFrames(store) : Len(store[f].history_) >= k }

\* Timestamp of the k-th most recent access of frame f.
KthRecent(store, f, k) == store[f].history_[Len(store[f].history_) - k + 1]

\* C1: whenever some evictable frame has fewer than k recorded accesses when
\* Evict() is called, Evict() returns a frame with fewer than k accesses,
\* never an evictable frame with k or more.
C1_InfiniteDistanceFirst ==
    (last_op = "Evict" /\ InfFrames(pre_store, k_) # {})
        => last_ret \in InfFrames(pre_store, k_)

\* C1 witness: Evict() ran with both kinds of evictable frame present and
\* returned one with fewer than k accesses.
C1_Witness ==
    /\ last_op = "Evict"
    /\ InfFrames(pre_store, k_) # {}
    /\ FiniteFrames(pre_store, k_) # {}
    /\ last_ret \in InfFrames(pre_store, k_)

\* C2: when several evictable frames have fewer than k recorded accesses,
\* Evict() returns the one among them whose oldest (first) recorded access
\* timestamp is the smallest.
C2_OldestFirstAccess ==
    (last_op = "Evict" /\ InfFrames(pre_store, k_) # {})
        => /\ last_ret \in InfFrames(pre_store, k_)
           /\ \A g \in InfFrames(pre_store, k_) :
                 pre_store[last_ret].history_[1] <= pre_store[g].history_[1]

\* C3: when every evictable frame has at least k recorded accesses, Evict()
\* returns the evictable frame with the largest backward k-distance, i.e.
\* the one whose k-th most recent access timestamp is the smallest
\* (timestamps are pairwise distinct, so the distances are too).
C3_LargestKDistance ==
    (last_op = "Evict" /\ EvictableFrames(pre_store) # {} /\ InfFrames(pre_store, k_) = {})
        => /\ last_ret \in EvictableFrames(pre_store)
           /\ \A g \in EvictableFrames(pre_store) :
                 KthRecent(pre_store, last_ret, k_) <= KthRecent(pre_store, g, k_)

\* C7: a successful Evict() returns a frame that was tracked and evictable
\* just before the call, deletes that frame's record, decreases Size() by
\* exactly one and leaves every other frame's record unchanged.
C7_EvictEffect ==
    (last_op = "Evict" /\ last_ret # NullOpt)
        => /\ last_ret \in EvictableFrames(pre_store)
           /\ DOMAIN node_store_ = (DOMAIN pre_store) \ {last_ret}
           /\ Size(node_store_) = Size(pre_store) - 1
           /\ \A f \in DOMAIN node_store_ : node_store_[f] = pre_store[f]
           /\ ~last_thrown

\* C7 witness: Evict() returned a frame while another evictable frame and a
\* non-evictable frame were tracked too.
C7_Witness ==
    /\ last_op = "Evict"
    /\ last_ret \in DOMAIN pre_store
    /\ Size(pre_store) >= 2
    /\ Cardinality(DOMAIN pre_store) > Size(pre_store)

\* C8: when no tracked frame is evictable, Evict() returns "none", raises
\* no error and leaves every record, and so Size(), unchanged.
C8_EvictNone ==
    (last_op = "Evict" /\ EvictableFrames(pre_store) = {})
        => /\ last_ret = NullOpt
           /\ ~last_thrown
           /\ node_store_ = pre_store
           /\ Size(node_store_) = Size(pre_store)

\* C8 witness: Evict() ran on a store that tracks only non-evictable frames,
\* with fewer than k and with k or more accesses, and returned "none".
C8_Witness ==
    /\ last_op = "Evict"
    /\ EvictableFrames(pre_store) = {}
    /\ \E f \in DOMAIN pre_store : Len(pre_store[f].history_) < k_
    /\ \E f \in DOMAIN pre_store : Len(pre_store[f].history_) >= k_
    /\ last_ret = NullOpt

\* Every timestamp recorded in a store.
Timestamps(store) ==
    UNION { { store[f].history_[i] : i \in 1 .. Len(store[f].history_) } : f \in DOMAIN store }

\* C12: Remove(f) on a tracked frame f that is not evictable reports an
\* error and leaves the state unchanged: f stays tracked with the same
\* history and flag, and no other record changes.
C12_RemoveNonEvictable ==
    (/\ last_op = "Remove"
     /\ last_arg.frame_id \in DOMAIN pre_store
     /\ ~pre_store[last_arg.frame_id].is_evictable_)
        => /\ last_thrown
           /\ node_store_ = pre_store

\* C12 witness: Remove threw on a non-evictable frame that has a history of
\* two accesses, while an evictable frame was tracked too.
C12_Witness ==
    /\ last_op = "Remove"
    /\ last_thrown
    /\ last_arg.frame_id \in DOMAIN node_store_
    /\ Len(node_store_[last_arg.frame_id].history_) >= 2
    /\ Size(node_store_) >= 1

\* C14: SetEvictable(f, b) changes Size() by +1 when f is tracked, not
\* evictable and b is true, by -1 when f is tracked, evictable and b is
\* false, and by 0 otherwise; on an untracked f it creates no record and
\* changes nothing; no access history is altered.
C14_SetEvictableSize ==
    last_op = "SetEvictable"
        => LET f == last_arg.frame_id
               b == last_arg.set_evictable
               tracked == f \in DOMAIN pre_store
               delta == Size(node_store_) - Size(pre_store)
           IN  /\ (tracked /\ ~pre_store[f].is_evictable_ /\ b) => delta = 1
               /\ (tracked /\ pre_store[f].is_evictable_ /\ ~b) => delta = -1
               /\ (tracked /\ pre_store[f].is_evictable_ = b) => node_store_ = pre_store
               /\ ~tracked => node_store_ = pre_store
               /\ DOMAIN node_store_ = DOMAIN pre_store
               /\ \A g \in DOMAIN node_store_ :
                     /\ node_store_[g].history_ = pre_store[g].history_
                     /\ g # f => node_store_[g] = pre_store[g]
               /\ ~last_thrown

\* C14 witness: SetEvictable(f, false) took a tracked evictable frame out of
\* Size() while another evictable frame stayed in and a frame was untracked.
C14_Witness ==
    /\ last_op = "SetEvictable"
    /\ last_arg.frame_id \in DOMAIN pre_store
    /\ pre_store[last_arg.frame_id].is_evictable_
    /\ ~last_arg.set_evictable
    /\ Size(pre_store) = 2
    /\ Size(node_store_) = 1
    /\ DOMAIN node_store_ # FrameIds

\* C18: RecordAccess(f) on an untracked frame creates a record that is not
\* evictable and whose history holds exactly one timestamp; on a tracked
\* frame it appends one timestamp, strictly greater than every timestamp
\* recorded before, and changes neither f's flag nor any other record.
C18_RecordAccessEffect ==
    last_op = "RecordAccess"
        => LET f == last_arg.frame_id IN
           /\ DOMAIN node_store_ = (DOMAIN pre_store) \cup {f}
           /\ \A g \in (DOMAIN pre_store) \ {f} : node_store_[g] = pre_store[g]
           /\ f \notin DOMAIN pre_store
                 => /\ ~node_store_[f].is_evictable_
                    /\ Len(node_store_[f].history_) = 1
           /\ f \in DOMAIN pre_store
                 => /\ node_store_[f].is_evictable_ = pre_store[f].is_evictable_
                    /\ Len(node_store_[f].history_) = Len(pre_store[f].history_) + 1
                    /\ SubSeq(node_store_[f].history_, 1, Len(pre_store[f].history_))
                         = pre_store[f].history_
           /\ \A t \in Timestamps(pre_store) : Back(node_store_[f].history_) > t
           /\ ~last_thrown

\* C18 witness: RecordAccess appended a third timestamp to an evictable
\* frame while another frame was tracked.
C18_Witness ==
    /\ last_op = "RecordAccess"
    /\ last_arg.frame_id \in DOMAIN pre_store
    /\ pre_store[last_arg.frame_id].is_evictable_
    /\ Len(node_store_[last_arg.frame_id].history_) = 3
    /\ Cardinality(DOMAIN node_store_) >= 1

C13_InvalidFrameId ==
    (/\ last_op \in {"RecordAccess", "SetEvictable", "Remove"}
     /\ last_arg.frame_id \notin FrameIds)
        => /\ last_thrown
           /\ node_store_ = pre_store

\* C20: after any sequence of calls on a replacer of capacity n, the number
\* of tracked frames, and so Size(), never exceeds n, and every tracked
\* frame id lies in [0, n).
C20_WithinCapacity ==
    /\ Cardinality(DOMAIN node_store_) <= NumFrames
    /\ Size(node_store_) <= NumFrames
    /\ DOMAIN node_store_ \subseteq FrameIds

(***************************************************************************)
(* Properties of the trie, checked under TrieSpec.                         *)
(***************************************************************************)

\* Whether the trie maps the key (to a value of any type).
Present(h, root_, key) ==
    LET w == GetWalk(h, root_, key, 1) IN
    ~w.returned /\ w.node # Null /\ h[w.node].is_value_node_

\* Whether two tries answer every Get alike.
SameGets(h1, root1, h2, root2) ==
    \A k \in Keys, T \in Types : Get(h1, root1, k, T) = Get(h2, root2, k, T)

\* Whether key p is a proper prefix of key k.
ProperPrefix(p, k) == Len(p) < Len(k) /\ \A i \in 1 .. Len(p) : p[i] = k[i]

RECURSIVE Reachable(_, _)
\* The nodes of the trie rooted at node.
Reachable(h, node) ==
    IF node = Null THEN {}
    ELSE {node} \cup UNION { Reachable(h, h[node].children_[c]) : c \in DOMAIN h[node].children_ }

\* C4: t.Put(k, v).Get<T>(k) returns v, for every trie t (also one that
\* already maps k), every key k (also the empty key) and every value v.
C4_PutThenGet ==
    trie_op.op = "Put"
        => Get(heap, trie_op.result, trie_op.key, trie_op.type) = Found(trie_op.value)

\* C4 witness: Put overwrote the value the empty key already had.
C4_Witness ==
    /\ trie_op.op = "Put"
    /\ trie_op.key = << >>
    /\ Present(trie_op.pre_heap, trie_op.src, trie_op.key)
    /\ Get(trie_op.pre_heap, trie_op.src, trie_op.key, trie_op.type) # Found(trie_op.value)
    /\ Get(heap, trie_op.result, trie_op.key, trie_op.type) = Found(trie_op.value)

\* C5: Put never mutates the snapshot it is called on: after t2 = t1.Put(k, v2)
\* every Get on t1 returns what it returned before the call.
C5_PutLeavesSource ==
    trie_op.op = "Put"
        => SameGets(heap, trie_op.src, trie_op.pre_heap, trie_op.src)

\* C5 witness: Put changed the value of a key that t1 maps, below a root
\* that t1 already had, and t1 still answers with the old value.
C5_Witness ==
    /\ trie_op.op = "Put"
    /\ Len(trie_op.key) > 0
    /\ Present(trie_op.pre_heap, trie_op.src, trie_op.key)
    /\ Get(heap, trie_op.result, trie_op.key, trie_op.type)
         # Get(heap, trie_op.src, trie_op.key, trie_op.type)
    /\ Present(heap, trie_op.src, trie_op.key)

\* C6: for every key k' other than k, t.Put(k, v).Get(k') equals t.Get(k'):
\* the new snapshot differs from the original only at k, and a node that
\* already existed at k keeps its children.
C6_PutLeavesOtherKeys ==
    trie_op.op = "Put"
        => \A k \in Keys \ {trie_op.key}, T \in Types :
              Get(heap, trie_op.result, k, T) = Get(trie_op.pre_heap, trie_op.src, k, T)

\* C6 witness: Put wrote a non-empty key that had no value but whose node
\* already had a child with a value, and that longer key is still mapped.
C6_Witness ==
    /\ trie_op.op = "Put"
    /\ Len(trie_op.key) > 0
    /\ ~Present(trie_op.pre_heap, trie_op.src, trie_op.key)
    /\ \E k \in Keys : /\ ProperPrefix(trie_op.key, k)
                        /\ Present(trie_op.pre_heap, trie_op.src, k)
                        /\ Present(heap, trie_op.result, k)

\* C9: for a key k absent from t, t.Remove(k) raises no error and returns a
\* trie whose Get result equals t's for every key.
C9_RemoveAbsent ==
    (trie_op.op = "Remove" /\ ~Present(trie_op.pre_heap, trie_op.src, trie_op.key))
        => /\ ~trie_op.thrown
           /\ SameGets(heap, trie_op.result, trie_op.pre_heap, trie_op.src)

\* C10: for a key k present in t, t.Remove(k) returns a trie in which Get(k)
\* is not found and every other key keeps its mapping; no node without a
\* value and without children is left, and the root is null when no key
\* remains.
C10_RemovePresent ==
    (trie_op.op = "Remove" /\ Present(trie_op.pre_heap, trie_op.src, trie_op.key))
        => /\ ~trie_op.thrown
           /\ \A T \in Types : Get(heap, trie_op.result, trie_op.key, T) = NotFound
           /\ \A k \in Keys \ {trie_op.key}, T \in Types :
                 Get(heap, trie_op.result, k, T) = Get(trie_op.pre_heap, trie_op.src, k, T)
           /\ \A n \in Reachable(heap, trie_op.result) :
                 heap[n].is_value_node_ \/ DOMAIN heap[n].children_ # {}

\* Whether the heap h and the root root_ are what t.Put<T>(key, value) leaves
\* when called on the trie rooted at t (Put allocates Len(key) + 2 nodes).
MadeByPut(h, root_, t, key, T, value) ==
    /\ Len(h) >= Len(key) + 2
    /\ PutResult(SubSeq(h, 1, Len(h) - Len(key) - 2), t, key, T, value)
         = [heap |-> h, root_ |-> root_]

\* C11: for every trie t, key k and value v, t.Put(k, v).Remove(k) yields a
\* trie whose Get result equals t's for every key.
C11_PutThenRemove ==
    trie_op.op = "Remove"
        => \A i \in 1 .. (Len(tries) - 1), T \in Types, value \in Values :
              MadeByPut(heap, trie_op.src, tries[i], trie_op.key, T, value)
                 => /\ ~trie_op.thrown
                    /\ SameGets(heap, trie_op.result, heap, tries[i])

\* C15: for every type U other than T, t.Put<T>(k, v).Get<U>(k) returns
\* "not found", the result for an absent key, and raises no error.
C15_GetOtherType ==
    trie_op.op = "Put"
        => /\ ~trie_op.thrown
           /\ \A U \in Types \ {trie_op.type} :
                 Get(heap, trie_op.result, trie_op.key, U) = NotFound

\* C15 witness: Put<T> overwrote a key that held a value of another type U,
\* so Get<U> found the key before the call and does not after it.
C15_Witness ==
    /\ trie_op.op = "Put"
    /\ Len(trie_op.key) > 0
    /\ \E U \in Types \ {trie_op.type} :
          /\ Get(trie_op.pre_heap, trie_op.src, trie_op.key, U).found
          /\ Get(heap, trie_op.result, trie_op.key, U) = NotFound
    /\ Get(heap, trie_op.result, trie_op.key, trie_op.type).found

RECURSIVE PathNodes(_, _, _, _)
\* The nodes on the path from node along key[i ..]: node itself and every
\* node the walk reaches.
PathNodes(h, node, key, i) ==
    IF node = Null THEN {}
    ELSE IF i > Len(key) THEN {node}
    ELSE {node} \cup PathNodes(h, Find(h, node, key[i]), key, i + 1)

\* The addresses that were allocated before the last trie call.
OldNodes == 1 .. Len(trie_op.pre_heap)

\* C17: after t2 = t1.Put(k, v), every node of t1 that does not lie on the
\* path from the root to k is the very same node in t2, and only nodes on
\* the path to k are newly allocated: the nodes of t2 are the off-path nodes
\* of t1, at their old addresses and unchanged, plus new nodes on the path.
C17_PutSharesSubtrees ==
    trie_op.op = "Put"
        => LET t1Nodes == Reachable(trie_op.pre_heap, trie_op.src)
               t1Path == PathNodes(trie_op.pre_heap, trie_op.src, trie_op.key, 1)
               t2Nodes == Reachable(heap, trie_op.result)
               t2Path == PathNodes(heap, trie_op.result, trie_op.key, 1)
           IN  /\ (t1Nodes \ t1Path) \subseteq t2Nodes
               /\ \A n \in t1Nodes : heap[n] = trie_op.pre_heap[n]
               /\ t2Nodes \ t2Path = t1Nodes \ t1Path
               /\ t2Path \cap OldNodes = {}
               /\ Cardinality(t2Path) = Len(trie_op.key) + 1

\* C17 witness: Put wrote a key of length two below an existing root that
\* has another child, and that child's node is shared by both snapshots.
C17_Witness ==
    /\ trie_op.op = "Put"
    /\ Len(trie_op.key) = 2
    /\ trie_op.src # Null
    /\ \E n \in Reachable(trie_op.pre_heap, trie_op.src) :
          /\ n \notin PathNodes(trie_op.pre_heap, trie_op.src, trie_op.key, 1)
          /\ n \in Reachable(heap, trie_op.result)
          /\ heap[n].is_value_node_

(***************************************************************************)
(* Properties of concurrent Puts, checked under ConcSpec.                  *)
(***************************************************************************)

\* The node a trie reaches at the end of a key (Null when the walk falls off).
NodeAt(h, root_, key) ==
    LET w == GetWalk(h, root_, key, 1) IN IF w.returned THEN Null ELSE w.node

\* C16: two threads run Put concurrently from the same snapshot t, their
\* steps and Gets on t interleaved in any way: no step writes to a node that
\* existed when they started, t answers every Get as before, and each thread
\* obtains a snapshot equal to t plus only its own update.
C16_ConcurrentPuts ==
    /\ \A a \in 1 .. Len(start_heap) : heap[a] = start_heap[a]
    /\ threads # << >> => SameGets(heap, SharedRoot, start_heap, SharedRoot)
    /\ last_get.result = last_get.before
    /\ \A th \in DOMAIN threads :
          threads[th].pc = "done"
             => LET me == threads[th] IN
                /\ Get(heap, me.result, me.key, me.type) = Found(me.value)
                /\ \A U \in Types \ {me.type} : Get(heap, me.result, me.key, U) = NotFound
                /\ \A k \in Keys \ {me.key}, U \in Types :
                      Get(heap, me.result, k, U) = Get(start_heap, SharedRoot, k, U)

\* C16 witness: both threads put the same non-empty key, which t maps, and
\* both are done; thread 2 made its value node before thread 1 returned and
\* returned after it.
C16_Witness ==
    /\ threads # << >>
    /\ threads[1].pc = "done"
    /\ threads[2].pc = "done"
    /\ threads[1].key = threads[2].key
    /\ Len(threads[1].key) > 0
    /\ Present(start_heap, SharedRoot, threads[1].key)
    /\ NodeAt(heap, threads[2].result, threads[2].key) < threads[1].result
    /\ threads[1].result < threads[2].result
====
